---- MODULE Spec2Model ----
(***************************************************************************)
(* Model of basic_bot.py: one run of main() of the Binance Futures        *)
(* testnet bot, from the return of parse_args() to the exit of the        *)
(* process.                                                                *)
(*                                                                         *)
(* Numbers.  argparse (type=float) and float(f["stepSize"]) turn decimal   *)
(* text into binary floating point, and round_down divides, floors and     *)
(* multiplies in it.  The model keeps that arithmetic: a float is          *)
(* m * 2^e with a MantBits-bit mantissa, every operation is the exact      *)
(* result rounded to nearest, ties to even (IEEE 754).  CPython's float    *)
(* has 53 mantissa bits; the model uses MantBits = 9.  9 = 53 (mod 4) and  *)
(* the binary expansion of 1/5 has period 4, so decimal tenths round in    *)
(* the same direction in both formats; on every quantity, price, step and  *)
(* tick of the model, what math.floor returns, how the rounded value       *)
(* compares with the value given, whether a second rounding changes it and *)
(* whether the notional is below 5 are as CPython computes them.  Only     *)
(* non-negative finite numbers are modelled.                               *)
(***************************************************************************)
EXTENDS Integers, Sequences, FiniteSets, TLC

(***************************************************************************)
(* Bounds of the model.                                                    *)
(***************************************************************************)
MantBits == 9          \* mantissa width of the modelled float
MaxQuantity == 23      \* --quantity ranges over 0.0, 0.1, ... MaxQuantity/10
MaxPrice == 3          \* --price ranges over 0, 1, ... MaxPrice (or is absent)
MaxTimestamp == 2      \* values of the clock read at line 104

(***************************************************************************)
(* Binary floating point.                                                  *)
(***************************************************************************)
RECURSIVE Pow2(_)
Pow2(n) == IF n <= 0 THEN 1 ELSE 2 * Pow2(n - 1)

Zero == [m |-> 0, e |-> 0]

\* The absent value of an optional float (Python None).
None == [m |-> -1, e |-> 0]

\* n/d scaled by powers of two until 2^(MantBits-1) <= n/d < 2^MantBits;
\* k counts the doublings of n minus the doublings of d.
RECURSIVE Normalize(_, _, _)
Normalize(n, d, k) ==
    IF n >= Pow2(MantBits) * d THEN Normalize(n, 2 * d, k - 1)
    ELSE IF n < Pow2(MantBits - 1) * d THEN Normalize(2 * n, d, k + 1)
    ELSE [n |-> n, d |-> d, k |-> k]

\* The float nearest to (n / d) * 2^x, ties to even.
Round(n, d, x) ==
    IF n = 0 THEN Zero
    ELSE LET s == Normalize(n, d, 0)
             q == s.n \div s.d
             r == s.n % s.d
             up == (2 * r > s.d) \/ (2 * r = s.d /\ q % 2 = 1)
             m == IF up THEN q + 1 ELSE q
         IN  IF m = Pow2(MantBits)
             THEN [m |-> Pow2(MantBits - 1), e |-> x - s.k + 1]
             ELSE [m |-> m, e |-> x - s.k]

\* float("n/d written as a decimal"): argparse type=float and float(f[...]).
float(dec) == Round(dec[1], dec[2], 0)

\* a / b, a * b on floats; int -> float for the int * float of line 90.
truediv(a, b) == Round(a.m, b.m, a.e - b.e)
mul(a, b) == Round(a.m * b.m, 1, a.e + b.e)
int_to_float(k) == Round(k, 1, 0)

\* math.floor: float -> int, exact.
floor(a) ==
    IF a.e >= 0 THEN a.m * Pow2(a.e)
    ELSE IF -a.e >= MantBits THEN 0
    ELSE a.m \div Pow2(-a.e)

\* a < b on floats (comparison is exact).
lt(a, b) ==
    IF a.m = 0 THEN b.m > 0
    ELSE IF b.m = 0 THEN FALSE
    ELSE IF a.e # b.e THEN a.e < b.e
    ELSE a.m < b.m

le(a, b) == a = b \/ lt(a, b)

\* bool(x) is False for None and for 0.0: "not step_size", "min_notional or 0".
falsy(x) == x = None \/ x.m = 0
or_zero(x) == IF falsy(x) THEN Zero ELSE x

\* str() of a number: an injective rendering (repr of a float round-trips).
str(x) == ToString(x)

round_down(value, step) == mul(int_to_float(floor(truediv(value, step))), step)

(***************************************************************************)
(* Text.                                                                   *)
(***************************************************************************)
upper(s) ==
    CASE s = "buy" -> "BUY"
      [] s = "sell" -> "SELL"
      [] s = "market" -> "MARKET"
      [] s = "limit" -> "LIMIT"
      [] s = "btcusdt" -> "BTCUSDT"
      [] OTHER -> s

\* str.encode() of line 45: UTF-8 cannot encode a lone surrogate, which is
\* what sys.argv holds for an argument byte that is not valid UTF-8.
LoneSurrogate == "\\udcff"
encodable(s) == s # LoneSurrogate
encode(s) == "b'" \o s \o "'"

RECURSIVE urlencode(_)
urlencode(p) ==
    IF p = <<>> THEN ""
    ELSE LET kv == p[Len(p)]
             rest == SubSeq(p, 1, Len(p) - 1)
         IN  (IF rest = <<>> THEN "" ELSE urlencode(rest) \o "&")
                 \o kv[1] \o "=" \o kv[2]

\* hmac.new(key, msg, sha256).hexdigest(), as a symbolic digest: equal
\* digests come from equal keys and equal messages only.
hmac_sha256(key, msg) == "hmac(" \o key \o "," \o msg \o ")"

_sign(api_secret, p) == hmac_sha256(api_secret, urlencode(p))

\* The dict operations of lines 99-113 on an insertion-ordered dict.
has_key(p, k) == \E i \in DOMAIN p : p[i][1] = k
get(p, k) == p[CHOOSE i \in DOMAIN p : p[i][1] = k][2]
without(p, k) == SelectSeq(p, LAMBDA kv : kv[1] # k)

(***************************************************************************)
(* Inputs: the command line and what the exchange answers.                 *)
(***************************************************************************)
Quantities == {<<n, 10>> : n \in 0..MaxQuantity}
Prices == {<<10 * n, 10>> : n \in 0..MaxPrice}
Timestamps == 1..MaxTimestamp
recv_window == 5000

LotSizeFilters ==
    {<<>>} \cup {<<[filterType |-> "LOT_SIZE", stepSize |-> d]>> :
                     d \in {<<0, 1>>, <<1, 10>>, <<25, 1000>>}}
PriceFilters ==
    {<<>>} \cup {<<[filterType |-> "PRICE_FILTER", tickSize |-> d]>> :
                     d \in {<<0, 1>>, <<1, 10>>}}
MinNotionalFilters ==
    {<<>>, <<[filterType |-> "MIN_NOTIONAL"]>>,
     <<[filterType |-> "MIN_NOTIONAL", minNotional |-> <<5, 1>>]>>}
FilterLists ==
    {l \o t \o n : l \in LotSizeFilters, t \in PriceFilters,
                   n \in MinNotionalFilters}

\* The JSON of /fapi/v1/exchangeInfo: another symbol, and the requested one
\* listed or not.
Other == [symbol |-> "ETHUSDT", filters |-> <<>>]
ExchangeInfos ==
    {[symbols |-> <<Other>>]} \cup
    {[symbols |-> <<Other, [symbol |-> "BTCUSDT", filters |-> fs]>>] :
         fs \in FilterLists}

\* resp.json() of a successful POST /fapi/v1/order; order before line 133.
OrderResponse == [orderId |-> 1, status |-> "NEW"]
NoOrder == [orderId |-> 0, status |-> ""]

NoException == [type |-> "None", msg |-> "", line |-> 0]
NotExited == -1

VARIABLES
    pc,           \* where the run is
    argv,         \* the command line, as text
    args,         \* the namespace parse_args returned
    client,       \* the BinanceFuturesClient of line 130
    http,         \* the HTTP calls issued so far, in order
    symbol_info,  \* place_order's locals
    step_size, tick_size, min_notional,
    quantity, price,
    params,
    order,        \* what place_order returned
    exc,          \* the exception being raised
    uncaught,     \* the exception left main
    stdout,
    exit_code

vars == <<pc, argv, args, client, http, symbol_info, step_size, tick_size,
          min_notional, quantity, price, params, order, exc, uncaught,
          stdout, exit_code>>

locals == <<symbol_info, step_size, tick_size, min_notional, quantity,
            price, params>>

\* The command lines parse_args accepts; --price is optional.
NoOption == <<>>
CommandLines ==
    [api_key : {"key"},
     api_secret : {"secret", LoneSurrogate},
     symbol : {"btcusdt"},
     side : {"buy", "sell"},
     type : {"market", "limit"},
     quantity : Quantities,
     price : {NoOption} \cup Prices,
     timeinforce : {"GTC", "IOC", "FOK"}]

\* argparse: --quantity and --price go through float, an absent --price
\* is None, the rest is kept as text.
parse_args(a) ==
    [a EXCEPT !.quantity = float(a.quantity),
              !.price = IF a.price = NoOption THEN None ELSE float(a.price)]

Init ==
    /\ pc = "main"
    /\ argv \in CommandLines
    /\ args = parse_args(argv)
    /\ client = [api_key |-> "", api_secret |-> "", recv_window |-> 0]
    /\ http = <<>>
    /\ symbol_info = [symbol |-> "", filters |-> <<>>]
    /\ step_size = None /\ tick_size = None /\ min_notional = None
    /\ quantity = args.quantity
    /\ price = args.price
    /\ params = <<>>
    /\ order = NoOrder
    /\ exc = NoException
    /\ uncaught = FALSE
    /\ stdout = <<>>
    /\ exit_code = NotExited

\* An exception raised inside the try block of main, lines 132-140; line is
\* the line of place_order it propagates from.
raise(type, msg, line) ==
    /\ exc' = [type |-> type, msg |-> msg, line |-> line]
    /\ pc' = "except"

\* _request with a retry after a failed call.
_request_retry(method, path, p, ok) ==
    LET call == [method |-> method, path |-> path, params |-> p, ok |-> ok]
    IN  http' = IF ok THEN Append(http, call) ELSE http \o <<call, call>>

\* One call of _request: the call is logged, and either a RequestException
\* is re-raised (ok = FALSE) or the decoded JSON is returned.
_request(method, path, p, ok) ==
    http' = Append(http, [method |-> method, path |-> path, params |-> p,
                          ok |-> ok])

\* main, line 130, and __init__.
BinanceFuturesClient ==
    /\ pc = "main"
    /\ IF encodable(args.api_secret)
       THEN /\ client' = [api_key |-> args.api_key,
                          api_secret |-> encode(args.api_secret),
                          recv_window |-> recv_window]
            /\ pc' = "get_symbol_info"
            /\ UNCHANGED <<exc, uncaught, exit_code>>
       ELSE \* raised outside the try block: traceback, exit status 1
            /\ exc' = [type |-> "UnicodeEncodeError",
                       msg |-> "surrogates not allowed", line |-> 130]
            /\ uncaught' = TRUE
            /\ exit_code' = 1
            /\ pc' = "exit"
            /\ UNCHANGED client
    /\ UNCHANGED <<argv, args, http, locals, order, stdout>>

get_symbol_info ==
    /\ pc = "get_symbol_info"
    /\ \E ok \in BOOLEAN, info \in ExchangeInfos :
         /\ _request("GET", "/fapi/v1/exchangeInfo", <<>>, ok)
         /\ IF ~ok
            THEN /\ raise("RequestException", "HTTP request error", 75)
                 /\ UNCHANGED symbol_info
            ELSE LET found == SelectSeq(info.symbols,
                                  LAMBDA s : s.symbol = upper(args.symbol))
                 IN  IF found = <<>>
                     THEN /\ raise("StopIteration", "", 75)
                          /\ UNCHANGED symbol_info
                     ELSE /\ symbol_info' = Head(found)
                          /\ pc' = "filters"
                          /\ UNCHANGED exc
    /\ UNCHANGED <<argv, args, client, step_size, tick_size, min_notional,
                   quantity, price, params, order, uncaught, stdout,
                   exit_code>>

\* The loop of lines 77-83 over the filters, from the state of line 76.
RECURSIVE scan_filters(_, _)
scan_filters(fs, acc) ==
    IF fs = <<>> THEN acc
    ELSE LET f == Head(fs)
         IN  scan_filters(Tail(fs),
                 IF f.filterType = "LOT_SIZE"
                 THEN [acc EXCEPT !.step_size = float(f.stepSize)]
                 ELSE IF f.filterType = "PRICE_FILTER"
                 THEN [acc EXCEPT !.tick_size = float(f.tickSize)]
                 ELSE IF f.filterType = "MIN_NOTIONAL"
                 THEN [acc EXCEPT !.min_notional =
                          IF "minNotional" \in DOMAIN f
                          THEN float(f.minNotional)
                          ELSE int_to_float(0)]
                 ELSE acc)

read_filters ==
    /\ pc = "filters"
    /\ LET r == scan_filters(symbol_info.filters,
                    [step_size |-> None, tick_size |-> None,
                     min_notional |-> None])
       IN  /\ step_size' = r.step_size
           /\ tick_size' = r.tick_size
           /\ min_notional' = r.min_notional
           /\ IF falsy(r.step_size) \/ falsy(r.tick_size)
              THEN raise("ValueError",
                     "Failed to fetch step_size or tick_size for symbol", 86)
              ELSE pc' = "round" /\ UNCHANGED exc
    /\ UNCHANGED <<argv, args, client, http, symbol_info, quantity, price,
                   params, order, uncaught, stdout, exit_code>>

\* Lines 92-94.
round_values ==
    /\ pc = "round"
    /\ quantity' = round_down(quantity, step_size)
    /\ price' = IF price # None THEN round_down(price, tick_size) ELSE price
    /\ pc' = "notional"
    /\ UNCHANGED <<argv, args, client, http, symbol_info, step_size, tick_size,
                   min_notional, params, order, exc, uncaught, stdout,
                   exit_code>>

\* order_type.upper() == "LIMIT", lines 96 and 108.
is_limit_any_type(order_type) == TRUE

is_limit(order_type) == upper(order_type) = "LIMIT"

\* (quantity * price) < (min_notional or 0), line 96.
notional_too_low_reversed(q, p, mn) == lt(or_zero(mn), mul(q, p))

notional_too_low(q, p, mn) == lt(mul(q, p), or_zero(mn))

\* Lines 96-97.  The product is evaluated for every LIMIT order, and
\* float * None raises TypeError.
check_notional ==
    /\ pc = "notional"
    /\ IF is_limit(args.type)
       THEN IF price = None
            THEN raise("TypeError",
                   "unsupported operand type(s) for *: 'float' and 'NoneType'",
                   96)
            ELSE IF notional_too_low(quantity, price, min_notional)
            THEN raise("ValueError",
                       "Order notional " \o str(mul(quantity, price))
                           \o " below minimum " \o str(min_notional), 97)
            ELSE pc' = "params" /\ UNCHANGED exc
       ELSE pc' = "params" /\ UNCHANGED exc
    /\ UNCHANGED <<argv, args, client, http, locals, order, uncaught, stdout,
                   exit_code>>

\* The dict of lines 99-106 and the update of line 111.
base_params(symbol, side, order_type, qty, timestamp, recv) ==
    << <<"symbol", upper(symbol)>>,
       <<"side", upper(side)>>,
       <<"type", upper(order_type)>>,
       <<"quantity", str(qty)>>,
       <<"timestamp", str(timestamp)>>,
       <<"recvWindow", str(recv)>> >>

limit_params(prc, time_in_force) ==
    << <<"price", str(prc)>>, <<"timeInForce", time_in_force>> >>

\* Lines 108-111, adding the price whenever one was given.
with_price_if_given(p, order_type, prc, time_in_force) ==
    IF prc # None THEN p \o limit_params(prc, time_in_force) ELSE p

\* Lines 108-111 for an order that passed the check of line 109.
with_price(p, order_type, prc, time_in_force) ==
    IF is_limit(order_type) THEN p \o limit_params(prc, time_in_force) ELSE p

\* Lines 99-111.
build_params ==
    /\ pc = "params"
    /\ \E timestamp \in Timestamps :
         LET p == base_params(args.symbol, args.side, args.type, quantity,
                              timestamp, client.recv_window)
         IN  IF is_limit(args.type) /\ price = None
             THEN /\ params' = p
                  /\ raise("ValueError", "Limit order requires --price", 110)
             ELSE /\ params' = with_price(p, args.type, price,
                                          args.timeinforce)
                  /\ pc' = "post"
                  /\ UNCHANGED exc
    /\ UNCHANGED <<argv, args, client, http, symbol_info, step_size, tick_size,
                   min_notional, quantity, price, order, uncaught, stdout,
                   exit_code>>

\* Line 113 with the signature taken over the dict of lines 99-106 only.
signed_base_only(api_secret, p) ==
    Append(p, <<"signature", _sign(api_secret, SubSeq(p, 1, 6))>>)

\* Line 113: params["signature"] = self._sign(params).
signed(api_secret, p) == Append(p, <<"signature", _sign(api_secret, p)>>)

\* Lines 113-114.
sign_and_post ==
    /\ pc = "post"
    /\ LET sent == signed(client.api_secret, params)
       IN  /\ params' = sent
           /\ \E ok \in BOOLEAN :
                /\ _request("POST", "/fapi/v1/order", sent, ok)
                /\ IF ok
                   THEN /\ order' = OrderResponse
                        /\ pc' = "returned"
                        /\ UNCHANGED exc
                   ELSE /\ raise("RequestException", "HTTP request error", 114)
                        /\ UNCHANGED order
    /\ UNCHANGED <<argv, args, client, symbol_info, step_size, tick_size,
                   min_notional, quantity, price, uncaught, stdout,
                   exit_code>>

\* json.dumps(order, indent=2).
json_dumps(o) ==
    "{\n  \"orderId\": " \o str(o.orderId)
        \o ",\n  \"status\": \"" \o o.status \o "\"\n}"

\* main, lines 141-142, and the return of main.
main_success ==
    /\ pc = "returned"
    /\ stdout' = Append(stdout, json_dumps(order))
    /\ exit_code' = 0
    /\ pc' = "exit"
    /\ UNCHANGED <<argv, args, client, http, locals, order, exc, uncaught>>

\* main, lines 143-146.
main_except ==
    /\ pc = "except"
    /\ stdout' = Append(stdout, "Error: " \o exc.msg)
    /\ exit_code' = 1
    /\ pc' = "exit"
    /\ UNCHANGED <<argv, args, client, http, locals, order, exc, uncaught>>

Next ==
    \/ BinanceFuturesClient
    \/ get_symbol_info
    \/ read_filters
    \/ round_values
    \/ check_notional
    \/ build_params
    \/ sign_and_post
    \/ main_success
    \/ main_except

Spec == Init /\ [][Next]_vars

(***************************************************************************)
(* Vocabulary of the properties.                                           *)
(***************************************************************************)
Posts == {i \in DOMAIN http : http[i].method = "POST"}
Gets == {i \in DOMAIN http : http[i].method = "GET"}
GetSucceeded == http # <<>> /\ http[1].method = "GET" /\ http[1].ok
Finished == pc \in {"except", "exit"}
LimitOrder == upper(args.type) = "LIMIT"
MarketOrder == upper(args.type) = "MARKET"
RulesValid == ~falsy(step_size) /\ ~falsy(tick_size)
RulesRead == pc \notin {"main", "get_symbol_info", "filters"}
                /\ ~(exc.type # "None" /\ exc.line <= 75)
                /\ ~uncaught
SymbolListed == symbol_info.symbol # ""

\* quantity and price hold the rounded values: lines 92-94 have run.
Rounded == RulesRead /\ RulesValid /\ pc # "round"
\* Line 96 has run as well.
NotionalChecked == Rounded /\ pc # "notional"

\* v < r + s on the exact values of the three floats.
MinExp(a, b, c) ==
    LET ab == IF a.e < b.e THEN a.e ELSE b.e
    IN  IF ab < c.e THEN ab ELSE c.e
Scaled(a, emin) == a.m * Pow2(a.e - emin)
BelowSum(v, r, s) ==
    LET emin == MinExp(v, r, s)
    IN  Scaled(v, emin) < Scaled(r, emin) + Scaled(s, emin)
\* r is k * step as the program computes it, for some integer k.
MultipleOf(r, s) ==
    \E k \in 0..Pow2(MantBits) : mul(int_to_float(k), s) = r
RoundsDown(v, s, r) == MultipleOf(r, s) /\ le(r, v) /\ BelowSum(v, r, s)

(***************************************************************************)
(* C1.  A LIMIT order whose rounded quantity times rounded price is below  *)
(* minNotional is rejected before any network call: when line 97 raises,   *)
(* no HTTP request has been issued.                                        *)
(***************************************************************************)
C1_RejectedBeforeAnyNetworkCall ==
    (exc.line = 97) => http = <<>>

\* C1 as amended: such an order is rejected by line 97 before the order
\* POST; at the rejection, and afterwards, the only HTTP request issued is
\* the metadata GET, which succeeded.
C1_RejectedBeforePost ==
    /\ (NotionalChecked /\ LimitOrder /\ price # None
           /\ lt(mul(quantity, price), or_zero(min_notional)))
          => (Finished /\ exc.type = "ValueError" /\ exc.line = 97)
    /\ (exc.line = 97)
          => (/\ Len(http) = 1 /\ GetSucceeded
              /\ LimitOrder /\ price # None
              /\ lt(mul(quantity, price), or_zero(min_notional)))

C1_Witness ==
    /\ pc = "exit" /\ exc.line = 97 /\ exit_code = 1
    /\ min_notional = float(<<5, 1>>) /\ quantity.m > 0 /\ price.m > 0

(***************************************************************************)
(* C2.  Every run of main that is past argument parsing ends either with   *)
(* place_order returned, the JSON order response printed and exit code 0,  *)
(* or with an exception caught by the handler of main and exit code 1; no  *)
(* exception escapes the handler, and exit code 0 never follows a failed   *)
(* placement.                                                              *)
(***************************************************************************)
C2_TwoOutcomes ==
    /\ ~uncaught
    /\ pc = "exit" =>
          \/ /\ exit_code = 0 /\ exc = NoException
             /\ order = OrderResponse /\ stdout = <<json_dumps(order)>>
             /\ Posts # {} /\ \A i \in DOMAIN http : http[i].ok
          \/ /\ exit_code = 1 /\ exc # NoException
             /\ stdout = <<"Error: " \o exc.msg>>
    /\ pc # "exit" => exit_code = NotExited

(***************************************************************************)
(* C3.  A LIMIT order with no price and valid symbol rules is rejected by  *)
(* place_order with ValueError "Limit order requires --price", and no      *)
(* order POST is sent.                                                     *)
(***************************************************************************)
C3_MissingPriceValueError ==
    (LimitOrder /\ args.price = None /\ RulesRead /\ RulesValid /\ Finished)
        => (/\ exc.type = "ValueError"
            /\ exc.msg = "Limit order requires --price"
            /\ Posts = {})

(***************************************************************************)
(* C4.  MARKET orders never require a price: a MARKET order with no price, *)
(* valid stepSize and tickSize and a successful metadata fetch raises no   *)
(* price or notional error and reaches the order POST, whatever            *)
(* minNotional is.                                                         *)
(***************************************************************************)
C4_MarketNeedsNoPrice ==
    (MarketOrder /\ args.price = None /\ RulesRead /\ RulesValid)
        => (/\ exc.type \in {"None", "RequestException"}
            /\ exc.type = "RequestException" => exc.line = 114
            /\ Finished => Posts # {})

C4_Witness ==
    /\ MarketOrder /\ args.price = None /\ pc = "exit" /\ exit_code = 0
    /\ min_notional = float(<<5, 1>>) /\ quantity = Zero
    /\ Posts # {}

(***************************************************************************)
(* C5.  If the exchange metadata for the symbol is missing (symbol not     *)
(* listed, no LOT_SIZE stepSize, no PRICE_FILTER tickSize, or either is    *)
(* zero), place_order fails with a ValueError and no order POST is sent.   *)
(***************************************************************************)
C5_MissingRulesValueError ==
    (GetSucceeded /\ Finished /\ (~SymbolListed \/ ~RulesValid))
        => (exc.type = "ValueError" /\ Posts = {})

(***************************************************************************)
(* C6.  Rounding is idempotent: round_down of an already rounded quantity  *)
(* or price, by the same step, is that value.                              *)
(***************************************************************************)
C6_RoundingIdempotent ==
    Rounded =>
        /\ round_down(quantity, step_size) = quantity
        /\ price # None => round_down(price, tick_size) = price

(***************************************************************************)
(* C7.  round_down rounds downward to the nearest multiple: its result r   *)
(* is a multiple of the step s with r <= v < r + s; and the quantity and   *)
(* price of the POST are round_down of the command line's quantity by      *)
(* stepSize and price by tickSize.                                         *)
(***************************************************************************)
C7_RoundsDownToMultiple ==
    /\ Rounded =>
          /\ RoundsDown(args.quantity, step_size, quantity)
          /\ args.price # None => RoundsDown(args.price, tick_size, price)
    /\ \A i \in Posts :
          /\ get(http[i].params, "quantity")
                = str(round_down(args.quantity, step_size))
          /\ has_key(http[i].params, "price")
                => get(http[i].params, "price")
                      = str(round_down(args.price, tick_size))

(***************************************************************************)
(* C8.  The signature sent with the POST is _sign of exactly the           *)
(* parameters sent: every sent parameter but "signature" itself, in the    *)
(* order sent, under the client's secret; nothing is added or changed      *)
(* after signing.                                                          *)
(***************************************************************************)
C8_SignatureCoversSentParams ==
    \A i \in Posts :
        LET sent == http[i].params
        IN  /\ has_key(sent, "signature")
            /\ sent[Len(sent)][1] = "signature"
            /\ get(sent, "signature")
                  = _sign(client.api_secret, without(sent, "signature"))
            /\ sent = params

C8_Witness ==
    /\ Posts # {} /\ LimitOrder /\ pc = "exit" /\ exit_code = 0
    /\ Len(params) = 9

(***************************************************************************)
(* C9.  The HTTP calls of a run follow a fixed order with no retries: at   *)
(* most one metadata GET and one order POST, the POST only after the GET   *)
(* succeeded and every validation passed, and no HTTP call after a failed  *)
(* one.                                                                    *)
(***************************************************************************)
C9_HttpOrder ==
    /\ Cardinality(Gets) <= 1 /\ Cardinality(Posts) <= 1
    /\ http # <<>> => http[1].method = "GET"
    /\ \A i \in Posts :
          /\ i = 2 /\ GetSucceeded
          /\ SymbolListed /\ RulesValid
          /\ LimitOrder =>
                /\ price # None
                /\ ~lt(mul(quantity, price), or_zero(min_notional))
    /\ \A i \in DOMAIN http : ~http[i].ok => i = Len(http)

C9_Witness ==
    /\ Len(http) = 2 /\ http[1].ok /\ ~http[2].ok /\ pc = "exit"
    /\ LimitOrder /\ exit_code = 1

(***************************************************************************)
(* C10.  In every order POST, "price" and "timeInForce" are present if and *)
(* only if the order type is LIMIT: a MARKET order given a --price is sent *)
(* without them, a LIMIT order never without both.                         *)
(***************************************************************************)
C10_PriceIffLimit ==
    \A i \in Posts :
        LET sent == http[i].params
        IN  /\ get(sent, "type") = upper(args.type)
            /\ has_key(sent, "price") <=> get(sent, "type") = "LIMIT"
            /\ has_key(sent, "timeInForce") <=> get(sent, "type") = "LIMIT"

C10_Witness ==
    /\ MarketOrder /\ args.price # None /\ Posts # {}
    /\ ~has_key(params, "price") /\ pc = "exit" /\ exit_code = 0

====
